---- MODULE Spec2Model ----
(***************************************************************************)
(* Fungible asset state of rgb-node: the derivation of an Asset from a     *)
(* genesis (TryFrom<Genesis> for Asset) and the allocation index           *)
(* (Asset::add_allocation, Asset::remove_allocation, Asset::allocations),  *)
(* from src/src/contracts/fungible/data/asset.rs.                          *)
(*                                                                         *)
(* Two specifications:                                                     *)
(*   SpecGenesis  one genesis, drawn from GenesisInputs, is derived;       *)
(*   Spec         an Asset returned by the derivation is mutated by        *)
(*                add_allocation / remove_allocation.                      *)
(***************************************************************************)
EXTENDS Integers, Sequences, FiniteSets, TLC

VARIABLES
  genesis,  \* the genesis handed to try_from
  result,   \* "Pending", "Ok", the error try_from returned, or the panic that ended it
  asset,    \* the Asset, NoAsset while there is none
  last,     \* the latest add_allocation / remove_allocation call and what it returned
  prev      \* the add_allocation before it, when it had the same arguments

vars == <<genesis, result, asset, last, prev>>

----------------------------------------------------------------------------
(* Bounds of the model *)

\* u64::MAX, scaled down: atomic values are integers modulo U64_MAX + 1
U64_MAX == 7

\* at most this many owned rights (inflation and assets together) on a genesis
MaxRights == 3

\* at most this many required metadata fields are missing from a genesis
MaxMissing == 1

\* `index as u16` keeps the low 16 bits of the position
U16_RANGE == 65536

----------------------------------------------------------------------------
(* Values *)

Outpoints == {"o1", "o2"}

\* seal::Revealed is TxOutpoint(outpoint) or WitnessVout
WitnessVout == "witness_vout"
ConfidentialSealDef == "confidential"
RevealedSeals == Outpoints \cup {WitnessVout}

\* fractional bits a genesis may declare (a u8 tag)
Precisions == {0, 8}

Supplies == {U64_MAX - 2}

InflationAmounts == {1, U64_MAX}

AssetValues == {1, 2}

ExpectedSchemaId == "fungible"
SchemaIds == {ExpectedSchemaId, "other"}

\* NodeId::from_inner(genesis.contract_id().into_inner())
GenesisNodeId == "genesis"
NodeIds == {GenesisNodeId, "n1"}

\* data::Revealed: U64(v) or another variant; hidden when the state is confidential
U64Data(v) == [tag |-> "U64", val |-> v]
OtherData == [tag |-> "Other", val |-> 0]
HiddenData == [tag |-> "Confidential", val |-> 0]

\* OwnedState of the inflation rights (custom state)
InflationStates ==
       [kind : {"Revealed"}, seal : RevealedSeals,
        data : {U64Data(v) : v \in InflationAmounts}]
  \cup [kind : {"ConfidentialSeal"}, seal : {ConfidentialSealDef},
        data : {U64Data(v) : v \in InflationAmounts} \cup {OtherData}]
  \cup [kind : {"Confidential"}, seal : {ConfidentialSealDef}, data : {HiddenData}]
  \cup [kind : {"ConfidentialAmount"}, seal : {"o1"}, data : {HiddenData}]

\* OwnedState of the assets rights (discrete state); value 0 stands for a hidden amount
AssetStates ==
       [kind : {"Revealed"}, seal : RevealedSeals, value : AssetValues]
  \cup [kind : {"ConfidentialSeal"}, seal : {ConfidentialSealDef}, value : {1}]
  \cup [kind : {"Confidential"}, seal : {ConfidentialSealDef}, value : {0}]
  \cup [kind : {"ConfidentialAmount"}, seal : {"o1"}, value : {0}]

RequiredFields == {"precision", "issued_supply", "ticker", "name", "timestamp"}

\* a metadata field holds zero or one value; `.first()?` reads it
Field(missing, f, v) == IF f \in missing THEN <<>> ELSE <<v>>

\* genesis.owned_rights_by_type(t): None, or Some(assignments)
NoRights == [present |-> FALSE, states |-> <<>>]
SomeRights(states) == [present |-> TRUE, states |-> states]

----------------------------------------------------------------------------
(* AccountingAmount *)

\* AccountingAmount::from_fractioned_atomic_value
from_fractioned_atomic_value(fractional_bits, atomic_value) ==
  [atomic_value |-> atomic_value, fractional_bits |-> fractional_bits]

\* AccountingAmount::default()
DefaultAmount == [atomic_value |-> 0, fractional_bits |-> 0]

\* the ways try_from ends in a panic: in add_assign (different fractional bits,
\* or overflow of +=) and in the sum of the capacities
Panics == {"PanicAddAssign", "PanicSum"}

\* u64 addition: panics with overflow checks, wraps without
U64Add(a, b, overflow_checks) ==
  IF a + b > U64_MAX
    THEN IF overflow_checks
           THEN [panic |-> TRUE, val |-> 0]
           ELSE [panic |-> FALSE, val |-> (a + b) % (U64_MAX + 1)]
    ELSE [panic |-> FALSE, val |-> a + b]

\* impl AddAssign for AccountingAmount
add_assign(self, rhs, overflow_checks) ==
  IF self.fractional_bits # rhs.fractional_bits
    THEN [panic |-> TRUE, val |-> self]
    ELSE LET s == U64Add(self.atomic_value, rhs.atomic_value, overflow_checks)
         IN  [panic |-> s.panic,
              val |-> [self EXCEPT !.atomic_value = s.val]]

----------------------------------------------------------------------------
(* Maps (BTreeMap) *)

EmptyMap == [o \in {} |-> 0]

\* BTreeMap::insert: a later value replaces an earlier one under the same key
MapInsert(m, k, v) == [o \in (DOMAIN m) \cup {k} |-> IF o = k THEN v ELSE m[o]]

\* known_allocations.get(seal) as a sequence, empty when there is no bucket
Bucket(ka, outpoint) == IF outpoint \in DOMAIN ka THEN ka[outpoint] ELSE <<>>

Range(s) == {s[i] : i \in 1..Len(s)}

----------------------------------------------------------------------------
(* TryFrom<Genesis> for Asset *)

NoAsset == [id |-> "none"]

Err(status) == [status |-> status, asset |-> NoAsset]

\* mutant: one short of the maximum
UnboundedInflationOffByOne(fractional_bits) ==
  from_fractioned_atomic_value(fractional_bits, U64_MAX - 1)

\* the amount set by the arm for every other (amount-hiding) state
UnboundedInflation(fractional_bits) ==
  from_fractioned_atomic_value(fractional_bits, U64_MAX)

\* one iteration of the loop over the inflation rights
InflationStep(state, fractional_bits, overflow_checks, acc) ==
  IF state.kind = "Revealed"
    THEN IF state.seal = WitnessVout
           THEN [acc EXCEPT !.status = "GenesisSeal"]
         ELSE IF state.data.tag # "U64"
           THEN [acc EXCEPT !.status = "NotAllFieldsPresent"]
         ELSE [acc EXCEPT !.known_inflation =
                 MapInsert(@, state.seal,
                   from_fractioned_atomic_value(fractional_bits, state.data.val))]
  ELSE IF state.kind = "ConfidentialSeal"
    THEN IF acc.unknown_inflation.atomic_value < U64_MAX
           THEN IF state.data.tag # "U64"
                  THEN [acc EXCEPT !.status = "NotAllFieldsPresent"]
                  ELSE LET sum == add_assign(acc.unknown_inflation,
                                    from_fractioned_atomic_value(fractional_bits,
                                                                 state.data.val),
                                    overflow_checks)
                       IN  IF sum.panic
                             THEN [acc EXCEPT !.status = "PanicAddAssign"]
                             ELSE [acc EXCEPT !.unknown_inflation = sum.val]
           ELSE acc
  ELSE [acc EXCEPT !.unknown_inflation = UnboundedInflation(fractional_bits)]

RECURSIVE InflationLoop(_, _, _, _, _)
InflationLoop(states, i, fractional_bits, overflow_checks, acc) ==
  IF acc.status # "Ok" \/ i > Len(states)
    THEN acc
    ELSE InflationLoop(states, i + 1, fractional_bits, overflow_checks,
                       InflationStep(states[i], fractional_bits, overflow_checks, acc))

\* mutant: positions counted from 1
GenesisAllocationOneBased(state, i) ==
  [node_id |-> GenesisNodeId, index |-> (i + 1) % U16_RANGE,
   outpoint |-> state.seal, value |-> state.value]

\* the allocation pushed for the state at position i (0-based) of the assets rights
GenesisAllocation(state, i) ==
  [node_id |-> GenesisNodeId, index |-> i % U16_RANGE,
   outpoint |-> state.seal, value |-> state.value]

RECURSIVE AssetsLoop(_, _, _)
AssetsLoop(states, i, known_allocations) ==
  IF i > Len(states)
    THEN known_allocations
    ELSE LET state == states[i]
         IN  AssetsLoop(states, i + 1,
               IF state.kind = "Revealed" /\ state.seal \in Outpoints
                 THEN MapInsert(known_allocations, state.seal,
                        Append(Bucket(known_allocations, state.seal),
                               GenesisAllocation(state, i - 1)))
                 ELSE known_allocations)

\* assignments.known_state_data() mapped to capacities: U64(cap) => cap, _ => 0
KnownCaps(states) ==
  [i \in 1..Len(states) |->
     IF states[i].kind \in {"Revealed", "ConfidentialSeal"}
          /\ states[i].data.tag = "U64"
       THEN states[i].data.val ELSE 0]

\* Iterator::sum over u64
RECURSIVE SumU64(_, _, _, _)
SumU64(caps, i, overflow_checks, acc) ==
  IF acc.panic \/ i > Len(caps)
    THEN acc
    ELSE SumU64(caps, i + 1, overflow_checks, U64Add(acc.val, caps[i], overflow_checks))

\* Supply.max_cap
MaxCap(rights, supply, overflow_checks) ==
  IF rights.present
    THEN LET s == SumU64(KnownCaps(rights.states), 1, overflow_checks,
                         [panic |-> FALSE, val |-> 0])
         IN  [panic |-> s.panic,
              val |-> from_fractioned_atomic_value(supply.fractional_bits, s.val)]
    ELSE [panic |-> FALSE, val |-> supply]

\* mutant: the schema identifier is never compared
SchemaDiffersNever(g) == FALSE

\* genesis.schema_id() != schema::schema().schema_id()
SchemaDiffers(g) == g.schema_id # ExpectedSchemaId

try_from(g, overflow_checks) ==
  IF SchemaDiffers(g) THEN Err("WrongSchemaId")
  ELSE IF g.precision = <<>> THEN Err("NotAllFieldsPresent")
  ELSE IF g.issued_supply = <<>> THEN Err("NotAllFieldsPresent")
  ELSE
    LET fractional_bits == Head(g.precision)
        supply == from_fractioned_atomic_value(fractional_bits, Head(g.issued_supply))
        infl == InflationLoop(g.inflation.states, 1, fractional_bits, overflow_checks,
                  [status |-> "Ok", known_inflation |-> EmptyMap,
                   unknown_inflation |-> DefaultAmount])
        issue == [id |-> GenesisNodeId, asset_id |-> "contract",
                  amount |-> supply, origin |-> <<>>]
        known_allocations == AssetsLoop(g.assets.states, 1, EmptyMap)
        max_cap == MaxCap(g.inflation, supply, overflow_checks)
    IN  IF infl.status # "Ok" THEN Err(infl.status)
        ELSE IF g.ticker = <<>> THEN Err("NotAllFieldsPresent")
        ELSE IF g.name = <<>> THEN Err("NotAllFieldsPresent")
        ELSE IF max_cap.panic THEN Err("PanicSum")
        ELSE IF g.timestamp = <<>> THEN Err("NotAllFieldsPresent")
        ELSE [status |-> "Ok",
              asset |->
                [id |-> "contract",
                 supply |-> [known_circulating |-> supply,
                             is_issued_known |-> <<>>,
                             max_cap |-> max_cap.val],
                 fractional_bits |-> fractional_bits,
                 known_issues |-> <<issue>>,
                 known_inflation |-> infl.known_inflation,
                 unknown_inflation |-> infl.unknown_inflation,
                 known_allocations |-> known_allocations]]

----------------------------------------------------------------------------
(* The genesis handed to the derivation *)

NoCall == [op |-> "none", outpoint |-> "o1", node_id |-> GenesisNodeId,
           index |-> 0, value |-> 1, ret |-> FALSE, before |-> 0]

NoPrev == [op |-> "none", ret |-> FALSE, before |-> 0]

\* an owned-rights section is present exactly when it holds at least one state
Rights(states) == IF Len(states) = 0 THEN NoRights ELSE SomeRights(states)

GenesisInputs(g) ==
  \E schema_id \in SchemaIds, missing \in SUBSET RequiredFields,
     precision \in Precisions, issued_supply \in Supplies,
     ni \in 0..MaxRights :
    \E na \in 0..(MaxRights - ni) :
      \E istates \in [1..ni -> InflationStates], astates \in [1..na -> AssetStates] :
        /\ Cardinality(missing) <= MaxMissing
        /\ "precision" \in missing => precision = 0
        /\ g = [schema_id |-> schema_id,
                precision |-> Field(missing, "precision", precision),
                issued_supply |-> Field(missing, "issued_supply", issued_supply),
                ticker |-> Field(missing, "ticker", "TCKR"),
                name |-> Field(missing, "name", "Name"),
                timestamp |-> Field(missing, "timestamp", 0),
                inflation |-> Rights(istates),
                assets |-> Rights(astates)]

InitGenesis ==
  /\ GenesisInputs(genesis)
  /\ result = "Pending"
  /\ asset = NoAsset
  /\ last = NoCall
  /\ prev = NoPrev

\* Asset::try_from(genesis)
TryFrom ==
  /\ result = "Pending"
  /\ \E overflow_checks \in BOOLEAN :
       LET r == try_from(genesis, overflow_checks)
       IN  /\ result' = r.status
           /\ asset' = r.asset
  /\ UNCHANGED <<genesis, last, prev>>

NextGenesis == TryFrom

SpecGenesis == InitGenesis /\ [][NextGenesis]_vars

----------------------------------------------------------------------------
(* Asset: the allocation index *)

Allocation(outpoint, node_id, index, value) ==
  [node_id |-> node_id, index |-> index, outpoint |-> outpoint, value |-> value]

\* known_allocations.entry(outpoint).or_insert(vec![])
EntryOrInsert(ka, outpoint) ==
  IF outpoint \in DOMAIN ka THEN ka ELSE MapInsert(ka, outpoint, <<>>)

\* allocations.iter().position(|a| *a == x): 0 stands for None
Position(s, x) ==
  IF x \in Range(s)
    THEN CHOOSE i \in 1..Len(s) : s[i] = x /\ \A j \in 1..(i - 1) : s[j] # x
    ELSE 0

\* Vec::remove(index)
VecRemove(s, i) == SubSeq(s, 1, i - 1) \o SubSeq(s, i + 1, Len(s))

\* Asset::allocations: zero or one bucket (Option<&Vec<Allocation>>)
allocations(a, seal) ==
  IF seal \in DOMAIN a.known_allocations THEN <<a.known_allocations[seal]>> ELSE <<>>

\* mutant: pushes without looking for an equal allocation
add_allocation_unchecked(a, outpoint, node_id, index, value) ==
  LET ka == EntryOrInsert(a.known_allocations, outpoint)
  IN  [asset |-> [a EXCEPT !.known_allocations =
                    [ka EXCEPT ![outpoint] =
                       Append(@, Allocation(outpoint, node_id, index, value))]],
       ret |-> TRUE]

\* Asset::add_allocation
add_allocation(a, outpoint, node_id, index, value) ==
  LET new_allocation == Allocation(outpoint, node_id, index, value)
      ka == EntryOrInsert(a.known_allocations, outpoint)
  IN  IF new_allocation \notin Range(ka[outpoint])
        THEN [asset |-> [a EXCEPT !.known_allocations =
                           [ka EXCEPT ![outpoint] = Append(@, new_allocation)]],
              ret |-> TRUE]
        ELSE [asset |-> [a EXCEPT !.known_allocations = ka], ret |-> FALSE]

\* mutant: finds the allocation but leaves it in the bucket
remove_allocation_keeps(a, outpoint, node_id, index, value) ==
  LET ka == EntryOrInsert(a.known_allocations, outpoint)
  IN  [asset |-> [a EXCEPT !.known_allocations = ka],
       ret |-> Position(ka[outpoint], Allocation(outpoint, node_id, index, value)) # 0]

\* Asset::remove_allocation
remove_allocation(a, outpoint, node_id, index, value) ==
  LET old_allocation == Allocation(outpoint, node_id, index, value)
      ka == EntryOrInsert(a.known_allocations, outpoint)
      pos == Position(ka[outpoint], old_allocation)
  IN  IF pos # 0
        THEN [asset |-> [a EXCEPT !.known_allocations =
                           [ka EXCEPT ![outpoint] = VecRemove(@, pos)]],
              ret |-> TRUE]
        ELSE [asset |-> [a EXCEPT !.known_allocations = ka], ret |-> FALSE]

\* arguments the callers pass besides the outpoint and the node id
ArgIndexes == {0}
ArgValues == {1}

\* the genesis has been moved into try_from
Moved == [schema_id |-> "moved"]

\* the call just made: its arguments, what it returned, and the size of the
\* outpoint's bucket before it
Call(op, outpoint, node_id, index, value, ret) ==
  [op |-> op, outpoint |-> outpoint, node_id |-> node_id, index |-> index,
   value |-> value, ret |-> ret,
   before |-> Len(Bucket(asset.known_allocations, outpoint))]

\* the call before the one being made, kept when it was an add_allocation with
\* the arguments of the one being made: what it returned and the size of the
\* bucket before it
Prev(outpoint, node_id, index, value) ==
  IF /\ last.op = "add"
     /\ last.outpoint = outpoint /\ last.node_id = node_id
     /\ last.index = index /\ last.value = value
    THEN [op |-> "add", ret |-> last.ret, before |-> last.before]
    ELSE NoPrev

\* an Asset as returned by the derivation; the operations below read and write
\* only known_allocations, so the genesis varies in its assets rights
Init ==
  /\ \E precision \in Precisions, issued_supply \in Supplies, na \in 0..MaxRights :
       \E astates \in [1..na -> AssetStates], overflow_checks \in BOOLEAN :
         LET r == try_from([schema_id |-> ExpectedSchemaId,
                            precision |-> <<precision>>,
                            issued_supply |-> <<issued_supply>>,
                            ticker |-> <<"TCKR">>, name |-> <<"Name">>,
                            timestamp |-> <<0>>,
                            inflation |-> NoRights,
                            assets |-> Rights(astates)], overflow_checks)
         IN  /\ r.status = "Ok"
             /\ asset = r.asset
  /\ genesis = Moved
  /\ result = "Ok"
  /\ last = NoCall
  /\ prev = NoPrev

AddAllocation ==
  /\ result = "Ok"
  /\ \E outpoint \in Outpoints, node_id \in NodeIds,
        index \in ArgIndexes, value \in ArgValues :
       LET r == add_allocation(asset, outpoint, node_id, index, value)
       IN  /\ asset' = r.asset
           /\ last' = Call("add", outpoint, node_id, index, value, r.ret)
           /\ prev' = Prev(outpoint, node_id, index, value)
  /\ UNCHANGED <<genesis, result>>

RemoveAllocation ==
  /\ result = "Ok"
  /\ \E outpoint \in Outpoints, node_id \in NodeIds,
        index \in ArgIndexes, value \in ArgValues :
       LET r == remove_allocation(asset, outpoint, node_id, index, value)
       IN  /\ asset' = r.asset
           /\ last' = Call("remove", outpoint, node_id, index, value, r.ret)
           /\ prev' = Prev(outpoint, node_id, index, value)
  /\ UNCHANGED <<genesis, result>>

Next == AddAllocation \/ RemoveAllocation

Spec == Init /\ [][Next]_vars

----------------------------------------------------------------------------
(* Properties *)

Min(a, b) == IF a < b THEN a ELSE b

\* the sum, in the integers, of the numbers of a sequence from position i on
RECURSIVE Total(_, _)
Total(numbers, i) ==
  IF i > Len(numbers) THEN 0 ELSE numbers[i] + Total(numbers, i + 1)

\* the genesis declares another schema than the fungible one
OtherSchema(g) == g.schema_id # ExpectedSchemaId

AllFieldsPresent(g) ==
  /\ g.precision # <<>> /\ g.issued_supply # <<>>
  /\ g.ticker # <<>> /\ g.name # <<>> /\ g.timestamp # <<>>

Positions(states) == 1..Len(states)

NoDuplicates(ka) ==
  \A o \in DOMAIN ka :
    \A i, j \in 1..Len(ka[o]) : ka[o][i] = ka[o][j] => i = j

\* C1: no bucket of known_allocations ever holds two equal allocations; an
\* add_allocation of an allocation already in the outpoint's bucket returns false
\* and leaves the bucket as it is, and any other add_allocation returns true and
\* appends exactly that allocation to the bucket.
C1_NoDuplicateAllocations ==
  result = "Ok" =>
    /\ NoDuplicates(asset.known_allocations)
    /\ \A outpoint \in Outpoints, node_id \in NodeIds,
          index \in ArgIndexes, value \in ArgValues :
         LET bucket == Bucket(asset.known_allocations, outpoint)
             new == Allocation(outpoint, node_id, index, value)
             r == add_allocation(asset, outpoint, node_id, index, value)
             after == Bucket(r.asset.known_allocations, outpoint)
         IN  IF new \in Range(bucket)
               THEN ~r.ret /\ after = bucket
               ELSE r.ret /\ after = Append(bucket, new)

\* an add_allocation of an allocation that the bucket, of two or more entries,
\* already held has just returned false
C1_Witness ==
  /\ last.op = "add" /\ ~last.ret
  /\ Len(Bucket(asset.known_allocations, last.outpoint)) >= 2

\* C2 as stated: after add_allocation and then remove_allocation with the same
\* arguments the outpoint's bucket has the size it had before the add_allocation.
C2_RoundTripRestoresSize ==
  (last.op = "remove" /\ prev.op = "add") =>
    Len(Bucket(asset.known_allocations, last.outpoint)) = prev.before

\* C2 as amended: the size is restored when the add_allocation inserted (returned
\* true); when the allocation was already in the bucket the add_allocation left
\* the bucket alone and the remove_allocation took the allocation out, so the
\* bucket ends one entry smaller than before the add_allocation.
C2_RoundTripSize ==
  (last.op = "remove" /\ prev.op = "add") =>
    /\ last.ret
    /\ Len(Bucket(asset.known_allocations, last.outpoint)) =
         IF prev.ret THEN prev.before ELSE prev.before - 1

\* an allocation was added to a bucket that held others and then removed
C2_Witness ==
  /\ last.op = "remove" /\ prev.op = "add" /\ prev.ret
  /\ prev.before >= 1

AmountsOf(a) ==
  {a.supply.known_circulating, a.supply.max_cap, a.unknown_inflation}
    \cup {a.known_issues[i].amount : i \in 1..Len(a.known_issues)}
    \cup {a.known_inflation[o] : o \in DOMAIN a.known_inflation}

\* C3 as stated: every amount a derived Asset holds carries the Asset's
\* fractional_bits.
C3_AmountsCarryAssetPrecision ==
  result = "Ok" =>
    \A amount \in AmountsOf(asset) : amount.fractional_bits = asset.fractional_bits

PartialAmount(state) ==
  IF state.kind = "ConfidentialSeal" /\ state.data.tag = "U64"
    THEN state.data.val ELSE 0

OnlyPartiallyConfidential(g) ==
  /\ g.inflation.present
  /\ \A i \in Positions(g.inflation.states) :
       /\ g.inflation.states[i].kind = "ConfidentialSeal"
       /\ g.inflation.states[i].data.tag = "U64"

\* C4 as stated: on a genesis with nothing else wrong whose inflation rights are
\* partially confidential ones, the additions into unknown_inflation do not end the derivation, and the
\* derived unknown_inflation is min(sum of the amounts, u64::MAX).
C4_UnknownInflationSaturates ==
  (/\ result # "Pending"
   /\ ~OtherSchema(genesis) /\ AllFieldsPresent(genesis)
   /\ OnlyPartiallyConfidential(genesis)) =>
    /\ result # "PanicAddAssign"
    /\ result = "Ok" =>
         asset.unknown_inflation.atomic_value =
           Min(Total([i \in Positions(genesis.inflation.states) |->
                        PartialAmount(genesis.inflation.states[i])], 1), U64_MAX)

HasWitnessAsset(g) ==
  \E i \in Positions(g.assets.states) :
    /\ g.assets.states[i].kind = "Revealed"
    /\ g.assets.states[i].seal = WitnessVout

\* C5 as stated, on a genesis with nothing else wrong (expected schema, all
\* metadata present, no inflation rights): a revealed assets right whose seal is
\* relative to a witness transaction makes the derivation fail with GenesisSeal.
C5_WitnessSealFails ==
  (/\ result # "Pending"
   /\ ~OtherSchema(genesis) /\ AllFieldsPresent(genesis)
   /\ ~genesis.inflation.present
   /\ HasWitnessAsset(genesis)) =>
    result = "GenesisSeal"

\* C6 as stated: a genesis of another schema fails with WrongSchemaId, and a
\* genesis of the expected schema that lacks a required metadata field fails with
\* NotAllFieldsPresent, whatever else the genesis contains.
C6_ChecksInStepOrder ==
  result # "Pending" =>
    /\ OtherSchema(genesis) => result = "WrongSchemaId"
    /\ (~OtherSchema(genesis) /\ ~AllFieldsPresent(genesis)) =>
         result = "NotAllFieldsPresent"

HasWitnessInflation(g) ==
  \E i \in Positions(g.inflation.states) :
    /\ g.inflation.states[i].kind = "Revealed"
    /\ g.inflation.states[i].seal = WitnessVout

HasKnownInflationAmount(g) ==
  \E i \in Positions(g.inflation.states) :
    /\ g.inflation.states[i].kind \in {"Revealed", "ConfidentialSeal"}
    /\ g.inflation.states[i].data.tag = "U64"

\* C6 as amended: a genesis of another schema fails with WrongSchemaId whatever
\* else it contains; one of the expected schema that lacks precision or issued
\* supply fails with NotAllFieldsPresent whatever its owned rights contain; one
\* that lacks only ticker, name or timestamp returns no Asset: it fails with
\* NotAllFieldsPresent, unless the inflation rights end the derivation first,
\* with GenesisSeal (a revealed inflation right with a witness-relative seal) or
\* with a panic in the arithmetic on the known inflation amounts.
C6_ChecksInCodeOrder ==
  result # "Pending" =>
    /\ OtherSchema(genesis) => result = "WrongSchemaId"
    /\ (/\ ~OtherSchema(genesis)
        /\ (genesis.precision = <<>> \/ genesis.issued_supply = <<>>)) =>
         result = "NotAllFieldsPresent"
    /\ (~OtherSchema(genesis) /\ ~AllFieldsPresent(genesis)) =>
         /\ result \in {"NotAllFieldsPresent", "GenesisSeal"} \cup Panics
         /\ result = "GenesisSeal" => HasWitnessInflation(genesis)
         /\ result \in Panics => HasKnownInflationAmount(genesis)

\* a genesis that lacks only a late field and carries inflation and assets rights
\* has failed with NotAllFieldsPresent
C6_Witness ==
  /\ result = "NotAllFieldsPresent"
  /\ ~OtherSchema(genesis)
  /\ genesis.precision # <<>> /\ genesis.issued_supply # <<>>
  /\ genesis.ticker = <<>>
  /\ genesis.inflation.present /\ HasWitnessAsset(genesis)

HasFullyConfidential(g) ==
  \E i \in Positions(g.inflation.states) : g.inflation.states[i].kind = "Confidential"

\* C7 as stated: when the inflation rights hold a fully confidential state the
\* derived unknown_inflation is u64::MAX, and every revealed inflation right is in
\* known_inflation under its outpoint with its capacity.
C7_ConfidentialDominates ==
  (result = "Ok" /\ HasFullyConfidential(genesis)) =>
    /\ asset.unknown_inflation.atomic_value = U64_MAX
    /\ \A i \in Positions(genesis.inflation.states) :
         LET state == genesis.inflation.states[i]
         IN  state.kind = "Revealed" =>
               /\ state.seal \in DOMAIN asset.known_inflation
               /\ asset.known_inflation[state.seal].atomic_value = state.data.val

\* the last revealed inflation right on the outpoint of the right at position i
LastRevealedOn(states, i) ==
  CHOOSE j \in Positions(states) :
    /\ states[j].kind = "Revealed" /\ states[j].seal = states[i].seal
    /\ \A k \in Positions(states) :
         (states[k].kind = "Revealed" /\ states[k].seal = states[i].seal) => k <= j

\* C7 as amended: when the inflation rights hold a fully confidential state the
\* derived unknown_inflation is u64::MAX, wherever that state stands among the
\* others, and the outpoint of every revealed inflation right is in
\* known_inflation with the capacity of the last revealed right on that outpoint
\* (a later right on an outpoint replaces an earlier one).
C7_ConfidentialDominatesLastWins ==
  (result = "Ok" /\ HasFullyConfidential(genesis)) =>
    /\ asset.unknown_inflation.atomic_value = U64_MAX
    /\ \A i \in Positions(genesis.inflation.states) :
         LET states == genesis.inflation.states
         IN  states[i].kind = "Revealed" =>
               /\ states[i].seal \in DOMAIN asset.known_inflation
               /\ asset.known_inflation[states[i].seal].atomic_value =
                    states[LastRevealedOn(states, i)].data.val

\* derived from a partially confidential right, then a fully confidential one,
\* and a revealed one
C7_Witness ==
  /\ result = "Ok"
  /\ \E i, j, k \in Positions(genesis.inflation.states) :
       /\ i < j
       /\ genesis.inflation.states[i].kind = "ConfidentialSeal"
       /\ genesis.inflation.states[j].kind = "Confidential"
       /\ genesis.inflation.states[k].kind = "Revealed"

KnownCap(state) ==
  IF state.kind \in {"Revealed", "ConfidentialSeal"} /\ state.data.tag = "U64"
    THEN state.data.val ELSE 0

\* C8 as stated: max_cap of a derived Asset is the issued supply when the genesis
\* has no inflation rights, and otherwise the sum of the known capacities of its
\* inflation rights, at the genesis precision.
C8_MaxCap ==
  result = "Ok" =>
    asset.supply.max_cap =
      from_fractioned_atomic_value(Head(genesis.precision),
        IF Len(genesis.inflation.states) = 0
          THEN Head(genesis.issued_supply)
          ELSE Total([i \in Positions(genesis.inflation.states) |->
                        KnownCap(genesis.inflation.states[i])], 1))

RevealedOn(states, outpoint) ==
  {i \in Positions(states) :
     states[i].kind = "Revealed" /\ states[i].seal = outpoint}

\* C9: known_allocations of a derived Asset holds, for each revealed assets right
\* whose seal is a direct chain output, one Allocation in the bucket of that
\* outpoint, with that outpoint, the revealed amount, the genesis node id and the
\* position (from 0) of the right among the assets rights; and nothing else.
C9_GenesisAllocations ==
  result = "Ok" =>
    LET states == genesis.assets.states
        ka == asset.known_allocations
    IN  /\ DOMAIN ka = {o \in Outpoints : RevealedOn(states, o) # {}}
        /\ \A o \in DOMAIN ka :
             /\ Range(ka[o]) =
                  {Allocation(o, GenesisNodeId, i - 1, states[i].value) :
                     i \in RevealedOn(states, o)}
             /\ Len(ka[o]) = Cardinality(RevealedOn(states, o))

\* derived from three assets rights: a hidden one, then two revealed ones on one
\* outpoint
C9_Witness ==
  /\ result = "Ok"
  /\ Len(genesis.assets.states) = 3
  /\ genesis.assets.states[1].kind # "Revealed"
  /\ genesis.assets.states[2].kind = "Revealed"
  /\ genesis.assets.states[3].kind = "Revealed"
  /\ genesis.assets.states[2].seal \in Outpoints
  /\ genesis.assets.states[3].seal = genesis.assets.states[2].seal

\* C10 as stated: a bucket comes into existence only through an add_allocation
\* on its outpoint, a bucket once present stays present, and a remove_allocation
\* on an outpoint without a bucket returns false and leaves known_allocations as
\* it was.
C10_BucketPresence ==
  [][LET ka == asset.known_allocations
         ka2 == asset'.known_allocations
     IN  /\ DOMAIN ka \subseteq DOMAIN ka2
         /\ \A o \in (DOMAIN ka2) \ (DOMAIN ka) :
              last'.op = "add" /\ last'.outpoint = o
         /\ (last'.op = "remove" /\ last'.outpoint \notin DOMAIN ka) =>
              ~last'.ret /\ ka2 = ka]_vars

====
